---- MODULE Spec2Model ----
(***************************************************************************)
(* Skooma (src/skooma.py): Type.validate, the five Type families,          *)
(* Schema.validate and the validate(args=, returns=) decorator.            *)
(*                                                                         *)
(* Python values are modelled as follows.                                  *)
(*   - None is the empty tuple and a present object x is <<x>>, wherever   *)
(*     the code tests an object for truth ("if rule:", "if schema_in:").   *)
(*   - A pandas value is a record [kind, val]: kind is type(x), val its    *)
(*     payload; f"{x}" prints the payload, so 5 and "5" print alike.       *)
(*   - A dict / DataFrame is a record [keys / columns, ...]: the names in  *)
(*     iteration order (without repetition) and the mapping from names.    *)
(*   - An error message is the very string the code formats.               *)
(***************************************************************************)
EXTENDS Integers, Sequences, FiniteSets, TLC

VARIABLES
    schema,        \* Schema object of the last Schema.validate call
    df,            \* DataFrame passed to that call
    errors,        \* the local list `errors` of that call at its end
    result,        \* value returned by the call: "True", "False"; "None" before any call
    calls,         \* columns on which a rule's Type.validate was invoked, in order
    pc,            \* position of the decorated function's call
    args,          \* decorator argument `args`: None or a tuple of optional Schemas
    returns,       \* decorator argument `returns`: None or a Schema
    args_,         \* positional arguments of the call of decorated_func
    valid_inputs,  \* local valid_inputs of decorated_func
    output,        \* local output of decorated_func: None or <<DataFrame>>
    retval,        \* value returned by decorated_func: None or <<DataFrame>>
    log,           \* events of the call, in order
    type_self,     \* Type object (self) of a direct Type.validate call
    type_series,   \* the pandas Series passed to it: its name and its values
    type_ret       \* None before that call, then <<the list it returned>>

vars == <<schema, df, errors, result, calls,
          pc, args, returns, args_, valid_inputs, output, retval, log,
          type_self, type_series, type_ret>>

validateVars == <<schema, df, errors, result, calls>>
typeVars == <<type_self, type_series, type_ret>>
decoratorVars == <<pc, args, returns, args_, valid_inputs, output, retval, log>>

-----------------------------------------------------------------------------
(* Bounds and input domains *)

MaxLen == 2        \* most rows of a DataFrame
MaxSeries == 3     \* longest Series handed to Type.validate directly
MaxArgs == 2       \* longest tuple of decorator schemas / positional arguments

None == <<>>

\* names a schema may have as keys, and names a DataFrame may have as columns:
\* "x" is a column no schema knows
KeyNames == {"a", "b"}
ColumnNames == KeyNames \cup {"x"}

\* the values a column may hold: 5 and 0 of kind int, "5" of kind str
Values ==
    { [kind |-> "int", val |-> 5],
      [kind |-> "int", val |-> 0],
      [kind |-> "str", val |-> 5] }

\* f"{x}"
Format(x) == ToString(x.val)

\* predicates a caller may configure:
\*   Pos   == lambda x: x > 0
\*   Recip == lambda x: 1 / x > 0
\* applied to a value: the returned truth value, or the text of the exception
CallRule(rule, x) ==
    CASE rule = "Pos" ->
            IF x.kind = "int"
                THEN [raised |-> FALSE, val |-> x.val > 0, err |-> ""]
                ELSE [raised |-> TRUE, val |-> FALSE,
                      err |-> "'>' not supported between instances of 'str' and 'int'"]
      [] rule = "Recip" ->
            IF x.kind # "int"
                THEN [raised |-> TRUE, val |-> FALSE,
                      err |-> "unsupported operand type(s) for /: 'int' and 'str'"]
            ELSE IF x.val = 0
                THEN [raised |-> TRUE, val |-> FALSE, err |-> "division by zero"]
                ELSE [raised |-> FALSE, val |-> x.val > 0, err |-> ""]

-----------------------------------------------------------------------------
(* class Type and its families *)

\* Type.__init__
Type(rule, types) == [rule |-> rule, types |-> types]

IntegerTypes ==
    {"int", "np.int_", "np.int8", "np.int16", "np.int32", "np.int64",
     "np.uint8", "np.uint16", "np.uint32", "np.uint64"}
FloatTypes == {"float", "np.float_", "np.float16", "np.float32", "np.float64"}
BooleanTypes == {"bool", "np.bool_"}
StringTypes == {"str", "np.string_", "np.unicode"}
DateTimeTypes == {"datetime.date", "datetime.datetime"}

Integer(rule) == Type(rule, IntegerTypes)
Float(rule) == Type(rule, FloatTypes)
Boolean(rule) == Type(rule, BooleanTypes)
String(rule) == Type(rule, StringTypes)
DateTime(rule) == Type(rule, DateTimeTypes)

\* variant: every row is visited, repeated values included
UniqueAllRows(series) == series

\* series.unique(): the distinct values in order of first appearance
RECURSIVE Unique(_)
Unique(series) ==
    IF series = <<>> THEN <<>>
    ELSE LET n == Len(series)
             u == Unique(SubSeq(series, 1, n - 1))
         IN  IF \E i \in 1..Len(u) : u[i] = series[n] THEN u ELSE Append(u, series[n])

InvalidValue(col, x) == "Invalid value in column '" \o col \o "': " \o Format(x)
InvalidValueErr(col, x, err) == InvalidValue(col, x) \o " (" \o err \o ")"

\* the body of the loop of Type.validate for one value x: the messages appended
CheckValue(t, x, col) ==
    IF x.kind \in t.types
        THEN LET r == CallRule(t.rule[1], x)
             IN  IF r.raised THEN <<InvalidValueErr(col, x, r.err)>>
                 ELSE IF r.val THEN <<>>
                 ELSE <<InvalidValue(col, x)>>
        ELSE <<InvalidValue(col, x)>>

\* variant: the try encloses the loop, so the first fault ends it
RECURSIVE CheckValuesAbort(_, _, _)
CheckValuesAbort(t, u, col) ==
    IF u = <<>> THEN <<>>
    ELSE IF Head(u).kind \in t.types /\ CallRule(t.rule[1], Head(u)).raised
        THEN CheckValue(t, Head(u), col)
        ELSE CheckValue(t, Head(u), col) \o CheckValuesAbort(t, Tail(u), col)

RECURSIVE CheckValues(_, _, _)
CheckValues(t, u, col) ==
    IF u = <<>> THEN <<>>
    ELSE CheckValue(t, Head(u), col) \o CheckValues(t, Tail(u), col)

\* Type.validate(series), col == series.name
TypeValidate(t, series, col) ==
    IF t.rule # None
        THEN CheckValues(t, Unique(series), col)
        ELSE <<>>

-----------------------------------------------------------------------------
(* class Schema *)

InSeq(x, s) == \E i \in 1..Len(s) : s[i] = x

NotInSchema(col) == "Column '" \o col \o "' not found in Schema"
NotInDataFrame(col) == "Column '" \o col \o "' not found in DataFrame"

\* the strict-mode loop over the DataFrame's columns
RECURSIVE StrictLoop(_, _)
StrictLoop(S, columns) ==
    IF columns = <<>> THEN <<>>
    ELSE (IF ~InSeq(Head(columns), S.schema.keys)
             THEN <<NotInSchema(Head(columns))>> ELSE <<>>)
         \o StrictLoop(S, Tail(columns))

\* variant: the strict flag is not consulted
StrictErrorsAlways(S, d) == StrictLoop(S, d.columns)

StrictErrors(S, d) == IF S.strict THEN StrictLoop(S, d.columns) ELSE <<>>

\* variant: a key missing from the DataFrame is passed over in silence
ColumnCheckSilent(S, d, col) ==
    IF ~InSeq(col, d.columns)
        THEN [errors |-> <<>>, calls |-> <<>>]
        ELSE LET rule == S.schema.rules[col]
             IN  IF rule # None
                     THEN [errors |-> TypeValidate(rule[1], d.data[col], col),
                           calls |-> <<col>>]
                     ELSE [errors |-> <<>>, calls |-> <<>>]

\* the body of the loop over the schema's keys for one key: the messages
\* appended and the columns handed to a rule
ColumnCheck(S, d, col) ==
    IF ~InSeq(col, d.columns)
        THEN [errors |-> <<NotInDataFrame(col)>>, calls |-> <<>>]
        ELSE LET rule == S.schema.rules[col]
             IN  IF rule # None
                     THEN [errors |-> TypeValidate(rule[1], d.data[col], col),
                           calls |-> <<col>>]
                     ELSE [errors |-> <<>>, calls |-> <<>>]

RECURSIVE SchemaLoop(_, _, _)
SchemaLoop(S, d, keys) ==
    IF keys = <<>> THEN [errors |-> <<>>, calls |-> <<>>]
    ELSE LET h == ColumnCheck(S, d, Head(keys))
             t == SchemaLoop(S, d, Tail(keys))
         IN  [errors |-> h.errors \o t.errors, calls |-> h.calls \o t.calls]

\* variant: a single message is tolerated
VerdictOffByOne(errs) == IF Len(errs) > 1 THEN "False" ELSE "True"

\* the end of Schema.validate: False when the list has messages, else True
Verdict(errs) == IF Len(errs) # 0 THEN "False" ELSE "True"

\* variant: the keys are not looked at once strict mode has found a stranger
SchemaValidateShortCircuit(S, d) ==
    LET strictPart == StrictErrors(S, d)
        loopPart == SchemaLoop(S, d, S.schema.keys)
    IN  IF strictPart # <<>>
            THEN [errors |-> strictPart, calls |-> <<>>, result |-> Verdict(strictPart)]
            ELSE [errors |-> loopPart.errors, calls |-> loopPart.calls,
                  result |-> Verdict(loopPart.errors)]

\* Schema.validate(df)
SchemaValidate(S, d) ==
    LET strictPart == StrictErrors(S, d)
        loopPart == SchemaLoop(S, d, S.schema.keys)
        errs == strictPart \o loopPart.errors
    IN  [errors |-> errs, calls |-> loopPart.calls, result |-> Verdict(errs)]

-----------------------------------------------------------------------------
(* Inputs *)

\* sequences over S without repetition, of length at most n
RECURSIVE Orderings(_, _)
Orderings(S, n) ==
    IF n = 0 THEN {<<>>}
    ELSE LET shorter == Orderings(S, n - 1)
         IN  shorter \cup {Append(s, x) : s \in shorter, x \in S}

NoRepeat(s) == \A i, j \in 1..Len(s) : s[i] = s[j] => i = j
KeyOrders == {s \in Orderings(KeyNames, Cardinality(KeyNames)) : NoRepeat(s)}
ColumnOrders == {s \in Orderings(ColumnNames, Cardinality(KeyNames)) : NoRepeat(s)}
Range(s) == {s[i] : i \in 1..Len(s)}

RECURSIVE SeqsUpTo(_, _)
SeqsUpTo(S, n) ==
    IF n = 0 THEN {<<>>}
    ELSE LET shorter == SeqsUpTo(S, n - 1)
         IN  shorter \cup {Append(s, x) : s \in {t \in shorter : Len(t) = n - 1}, x \in S}

\* the columns of length n
SeriesOfLen(n) == {s \in SeqsUpTo(Values, n) : Len(s) = n}

\* DataFrames: every column of a frame has the frame's number of rows; the
\* column "x", whose values no rule ever reads, holds 5 on every row
Filler(n) == [i \in 1..n |-> [kind |-> "int", val |-> 5]]
Tables ==
    UNION { {[columns |-> p[1], data |-> dat] :
                dat \in {f \in [Range(p[1]) -> SeriesOfLen(p[2])] :
                            "x" \in Range(p[1]) => f["x"] = Filler(p[2])}}
            : p \in ColumnOrders \X (0..MaxLen) }

\* the optional rules of a schema's keys
Rules ==
    { None,
      <<Integer(None)>>, <<String(None)>>,
      <<Integer(<<"Pos">>)>>, <<Integer(<<"Recip">>)>>, <<String(<<"Pos">>)>> }

\* Type objects: the five families and a generic Type of ints and strs, each
\* without predicate and with either predicate
Predicates == {None, <<"Pos">>, <<"Recip">>}
TypeObjects ==
    UNION { {Integer(r), Float(r), Boolean(r), String(r), DateTime(r),
             Type(r, {"int", "str"})} : r \in Predicates }

\* Schema.__init__
Schema(dict, strict) == [schema |-> dict, strict |-> strict]

Dicts ==
    UNION { {[keys |-> ks, rules |-> rs] : rs \in [Range(ks) -> Rules]}
            : ks \in KeyOrders }

Schemas == {Schema(dict, strict) : dict \in Dicts, strict \in BOOLEAN}

-----------------------------------------------------------------------------
(* Schema.validate as an operation *)

InitValidate ==
    /\ schema \in Schemas
    /\ df \in Tables
    /\ errors = <<>>
    /\ result = "None"
    /\ calls = <<>>

InitValidateIdle ==
    /\ schema = Schema([keys |-> <<>>, rules |-> <<>>], TRUE)
    /\ df = [columns |-> <<>>, data |-> <<>>]
    /\ errors = <<>>
    /\ result = "None"
    /\ calls = <<>>

InitTypeIdle ==
    /\ type_self = Type(None, {})
    /\ type_series = [name |-> "a", values |-> <<>>]
    /\ type_ret = None

InitDecoratorIdle ==
    /\ pc = "undecorated"
    /\ args = None
    /\ returns = None
    /\ args_ = <<>>
    /\ valid_inputs = "None"
    /\ output = None
    /\ retval = None
    /\ log = <<>>

\* schema.validate(df); one call is followed per behaviour, the objects being
\* stateless across calls
Validate ==
    /\ result = "None"
    /\ LET r == SchemaValidate(schema, df)
       IN  /\ errors' = r.errors
           /\ result' = r.result
           /\ calls' = r.calls
    /\ UNCHANGED <<schema, df>>
    /\ UNCHANGED decoratorVars
    /\ UNCHANGED typeVars

Init == InitValidate /\ InitDecoratorIdle /\ InitTypeIdle
Next == Validate
Spec == Init /\ [][Next]_vars

-----------------------------------------------------------------------------
(* Type.validate as an operation *)

InitType ==
    /\ type_self \in TypeObjects
    /\ type_series \in [name : ColumnNames, values : SeqsUpTo(Values, MaxSeries)]
    /\ type_ret = None

\* type_self.validate(type_series)
TypeValidateCall ==
    /\ type_ret = None
    /\ type_ret' = <<TypeValidate(type_self, type_series.values, type_series.name)>>
    /\ UNCHANGED <<type_self, type_series>>
    /\ UNCHANGED validateVars
    /\ UNCHANGED decoratorVars

TypeInit == InitType /\ InitValidateIdle /\ InitDecoratorIdle
NextType == TypeValidateCall
SpecType == TypeInit /\ [][NextType]_vars

-----------------------------------------------------------------------------
(* def validate(args=None, returns=None): the decorator *)

\* schemas and tables the decorated function is exercised with
SchemaA == Schema([keys |-> <<"a">>, rules |-> [c \in {"a"} |-> <<Integer(<<"Pos">>)>>]], FALSE)
SchemaB == Schema([keys |-> <<"b">>, rules |-> [c \in {"b"} |-> None]], FALSE)
Frame(cols, v) ==
    [columns |-> cols, data |-> [c \in Range(cols) |-> <<[kind |-> "int", val |-> v]>>]]
DecoratorSchemas == {SchemaA, SchemaB}
DecoratorTables ==
    {Frame(<<"a">>, 5), Frame(<<"a">>, 0), Frame(<<"b">>, 5), Frame(<<"a", "b">>, 5)}

OptionalSchemas == {None} \cup {<<S>> : S \in DecoratorSchemas}
ArgsChoices == {<<>>} \cup {<<t>> : t \in SeqsUpTo(OptionalSchemas, MaxArgs)}
ReturnsChoices == OptionalSchemas

Event(name, i) == [ev |-> name, idx |-> i]

\* validate_i(schemata, args_) from index i on (1-based here, 0-based in the
\* events): the value returned, None when the loop runs out, and the
\* arguments validated
RECURSIVE validate_i_from(_, _, _)
validate_i_from(schemata, a, i) ==
    IF i > Len(schemata) THEN [ret |-> "None", events |-> <<>>]
    ELSE LET schema_in == schemata[i]
         IN  IF schema_in # None
                 THEN IF SchemaValidate(schema_in[1], a[i]).result # "True"
                          THEN [ret |-> "False", events |-> <<Event("validate_i", i - 1)>>]
                          ELSE [ret |-> "True", events |-> <<Event("validate_i", i - 1)>>]
                 ELSE validate_i_from(schemata, a, i + 1)

validate_i(schemata, a) == validate_i_from(schemata, a, 1)

\* variant: the output is let through unexamined
validate_o_Unchecked(schema_out, out) == "True"

validate_o(schema_out, out) ==
    IF SchemaValidate(schema_out, out).result # "True" THEN "False" ELSE "True"

\* "if args": None is false and a tuple is true when non-empty
Truthy(v) == v # None /\ v # <<<<>>>>

InitDecorator ==
    /\ pc = "ready"
    /\ args \in ArgsChoices
    /\ returns \in ReturnsChoices
    /\ args_ = <<>>
    /\ valid_inputs = "None"
    /\ output = None
    /\ retval = None
    /\ log = <<>>

\* decorated_func(*args_) up to the call of func: the inputs are validated.
\* The caller passes at least as many arguments as args has entries.
Call ==
    /\ pc = "ready"
    /\ \E a \in SeqsUpTo(DecoratorTables, MaxArgs) :
          /\ args # None => Len(a) >= Len(args[1])
          /\ args_' = a
          /\ LET v == IF Truthy(args)
                          THEN validate_i(args[1], a)
                          ELSE [ret |-> "True", events |-> <<>>]
             IN  /\ valid_inputs' = v.ret
                 /\ log' = v.events
    /\ pc' = "inputs_validated"
    /\ UNCHANGED <<args, returns, output, retval>>
    /\ UNCHANGED validateVars
    /\ UNCHANGED typeVars

\* valid_inputs is False or None: func is not run and the call returns None
Withhold ==
    /\ pc = "inputs_validated"
    /\ valid_inputs # "True"
    /\ retval' = None
    /\ pc' = "returned"
    /\ UNCHANGED <<args, returns, args_, valid_inputs, output, log>>
    /\ UNCHANGED validateVars
    /\ UNCHANGED typeVars

\* output = func(*args_)
Invoke ==
    /\ pc = "inputs_validated"
    /\ valid_inputs = "True"
    /\ \E out \in DecoratorTables : output' = <<out>>
    /\ log' = Append(log, Event("func", 0))
    /\ pc' = "invoked"
    /\ UNCHANGED <<args, returns, args_, valid_inputs, retval>>
    /\ UNCHANGED validateVars
    /\ UNCHANGED typeVars

\* the output is validated and returned, or None is
Return ==
    /\ pc = "invoked"
    /\ LET valid_output == IF returns # None THEN validate_o(returns[1], output[1]) ELSE "True"
       IN  /\ retval' = IF valid_output = "True" THEN output ELSE None
           /\ log' = IF returns # None THEN Append(log, Event("validate_o", 0)) ELSE log
    /\ pc' = "returned"
    /\ UNCHANGED <<args, returns, args_, valid_inputs, output>>
    /\ UNCHANGED validateVars
    /\ UNCHANGED typeVars

DecoratorInit == InitDecorator /\ InitValidateIdle /\ InitTypeIdle
NextDecorator == Call \/ Withhold \/ Invoke \/ Return
SpecDecorator == DecoratorInit /\ [][NextDecorator]_vars

-----------------------------------------------------------------------------
(* Vocabulary of the properties of Schema.validate *)

Called == result # "None"
Keys == Range(schema.schema.keys)
Cols == Range(df.columns)
RuleOf(c) == schema.schema.rules[c]
Distinct(c) == Range(df.data[c])
Count(s, m) == Cardinality({i \in 1..Len(s) : s[i] = m})

\* column c is a present key whose rule has no predicate / has one
Checked(c) == c \in Keys /\ c \in Cols /\ RuleOf(c) # None
NoPredicate(c) == Checked(c) /\ RuleOf(c)[1].rule = None
HasPredicate(c) == Checked(c) /\ RuleOf(c)[1].rule # None

\* what the predicate of rule t does with x when it is reached
Raises(t, x) == x.kind \in t.types /\ CallRule(t.rule[1], x).raised
Fails(t, x) == x.kind \notin t.types \/ (~CallRule(t.rule[1], x).raised /\ ~CallRule(t.rule[1], x).val)
Fault(t, x) == CallRule(t.rule[1], x).err

ErrTexts ==
    {CallRule(q[1], q[2]).err :
        q \in {p \in {"Pos", "Recip"} \X Values : CallRule(p[1], p[2]).raised}}
PlainMsgs == [c \in ColumnNames |-> {InvalidValue(c, x) : x \in Values}]
FaultMsgs == [c \in ColumnNames |-> {InvalidValueErr(c, x, e) : x \in Values, e \in ErrTexts}]
ValueMsgs == [c \in ColumnNames |-> PlainMsgs[c] \cup FaultMsgs[c]]
CountIn(s, M) == Cardinality({i \in 1..Len(s) : s[i] \in M})

RECURSIVE Without(_, _)
Without(s, M) ==
    IF s = <<>> THEN <<>>
    ELSE IF Head(s) \in M THEN Without(Tail(s), M) ELSE <<Head(s)>> \o Without(Tail(s), M)

-----------------------------------------------------------------------------
(* C1: Schema.validate returns False exactly when the list of messages it has
   accumulated is non-empty, and True exactly when it is empty. *)
C1_FalseIffErrors ==
    Called =>
        /\ (result = "False") <=> (Len(errors) > 0)
        /\ (result = "True") <=> (Len(errors) = 0)

\* a failed call with a structural and a value message
C1_Witness ==
    /\ result = "False"
    /\ \E c \in ColumnNames : InSeq(NotInSchema(c), errors)
    /\ \E c \in ColumnNames : CountIn(errors, ValueMsgs[c]) > 0

(* C2: a rule of a built-in family without predicate still checks the kind:
   every distinct value of a kind the rule does not accept yields an
   "Invalid value" message and makes Schema.validate return False. *)
C2_KindCheckedWithoutPredicate ==
    Called =>
        \A c \in ColumnNames :
            NoPredicate(c) =>
                \A x \in Distinct(c) :
                    x.kind \notin RuleOf(c)[1].types =>
                        /\ InSeq(InvalidValue(c, x), errors)
                        /\ result = "False"

(* C3: for a column whose rule has a predicate that does not raise on the
   values it is called with, the messages of Type.validate are one "Invalid
   value" message per distinct value that is of a kind not accepted or fails
   the predicate, and no other: the same text appears as often as there are
   distinct offending values printing that text, whatever the number of rows
   holding them. *)
C3_Case ==
    /\ type_ret # None
    /\ type_self.rule # None
    /\ \A x \in Range(type_series.values) : ~Raises(type_self, x)

C3_OnePerDistinctOffender ==
    C3_Case =>
        LET offenders == {x \in Range(type_series.values) : Fails(type_self, x)}
            c == type_series.name
        IN  /\ \A m \in PlainMsgs[c] :
                  Count(type_ret[1], m) = Cardinality({x \in offenders : InvalidValue(c, x) = m})
            /\ Len(type_ret[1]) = Cardinality(offenders)
            /\ \A i \in 1..Len(type_ret[1]) : type_ret[1][i] \in PlainMsgs[c]

\* Scenario A: Integer(lambda x: x > 0) on [5, 0, 5] gives one message, for 0
C3_Witness ==
    /\ C3_Case
    /\ type_self = Integer(<<"Pos">>)
    /\ type_series.values = <<[kind |-> "int", val |-> 5], [kind |-> "int", val |-> 0],
                         [kind |-> "int", val |-> 5]>>
    /\ type_ret = << <<InvalidValue(type_series.name, [kind |-> "int", val |-> 0])>> >>

(* C4: in strict mode every column of the table that is no key of the schema
   yields exactly one "not found in Schema" message and the result is False;
   a non-strict schema yields no such message, and its result is the one it
   gives for the table without the extra columns. *)
Restrict(d, K) ==
    [columns |-> SelectSeq(d.columns, LAMBDA c : c \in K),
     data |-> [c \in Cols \cap K |-> d.data[c]]]

C4_StrictMode ==
    Called =>
        /\ schema.strict =>
              \A c \in ColumnNames :
                  IF c \in Cols \ Keys
                      THEN Count(errors, NotInSchema(c)) = 1 /\ result = "False"
                      ELSE Count(errors, NotInSchema(c)) = 0
        /\ ~schema.strict =>
              /\ \A c \in ColumnNames : Count(errors, NotInSchema(c)) = 0
              /\ result = SchemaValidate(schema, Restrict(df, Keys)).result

\* a strict call on a table with a column the schema does not name
C4_Witness ==
    /\ Called
    /\ schema.strict
    /\ Cols \ Keys # {}
    /\ Keys # {}
    /\ \E c \in Cols \ Keys : InSeq(NotInSchema(c), errors)

(* C5: every key of the schema that is no column of the table yields exactly
   one "not found in DataFrame" message and no value message, its rule is not
   invoked, and the result is False; a present key mapped to None yields no
   message at all. *)
C5_MissingColumn ==
    Called =>
        \A c \in Keys :
            /\ c \notin Cols =>
                  /\ Count(errors, NotInDataFrame(c)) = 1
                  /\ CountIn(errors, ValueMsgs[c]) = 0
                  /\ ~InSeq(c, calls)
                  /\ result = "False"
            /\ c \in Cols => Count(errors, NotInDataFrame(c)) = 0
            /\ (c \in Cols /\ RuleOf(c) = None) =>
                  /\ CountIn(errors, ValueMsgs[c] \cup {NotInDataFrame(c), NotInSchema(c)}) = 0
                  /\ ~InSeq(c, calls)

\* a missing key that has a rule with a predicate, beside a present key
\* mapped to None whose column holds values
C5_Witness ==
    /\ Called
    /\ \E c \in Keys \ Cols :
          /\ RuleOf(c) # None
          /\ RuleOf(c)[1].rule # None
          /\ InSeq(NotInDataFrame(c), errors)
    /\ \E c \in Keys \cap Cols : RuleOf(c) = None /\ Len(df.data[c]) > 0

(* C6: when the predicate raises on a distinct value v of a column, nothing
   propagates: v gets exactly one message carrying the fault text, the result
   is False, and all other messages are those of the same call on the table
   without the values the predicates raise on. *)
RaisingIn(c) == {x \in Distinct(c) : Raises(RuleOf(c)[1], x)}

StripFaults(d) ==
    [columns |-> d.columns,
     data |-> [c \in Cols |->
                  IF HasPredicate(c)
                      THEN SelectSeq(d.data[c], LAMBDA x : ~Raises(RuleOf(c)[1], x))
                      ELSE d.data[c]]]

AllFaultMsgs == UNION {FaultMsgs[c] : c \in ColumnNames}

C6_Case == \E c \in ColumnNames : HasPredicate(c) /\ RaisingIn(c) # {}

C6_FaultIsolation ==
    (Called /\ C6_Case) =>
        /\ result = "False"
        /\ \A c \in ColumnNames :
              HasPredicate(c) =>
                  /\ \A v \in RaisingIn(c) :
                        Count(errors, InvalidValueErr(c, v, Fault(RuleOf(c)[1], v))) = 1
                  /\ CountIn(errors, FaultMsgs[c]) = Cardinality(RaisingIn(c))
        /\ \A c \in ColumnNames : ~HasPredicate(c) => CountIn(errors, FaultMsgs[c]) = 0
        /\ Without(errors, AllFaultMsgs) = SchemaValidate(schema, StripFaults(df)).errors

\* the predicate raises on the first distinct value of the first key; a later
\* value of that column and a later key are reported as well
C6_Witness ==
    /\ Called
    /\ Len(schema.schema.keys) = 2
    /\ LET c == schema.schema.keys[1]
           k == schema.schema.keys[2]
       IN  /\ HasPredicate(c)
           /\ Len(df.data[c]) = 2
           /\ Raises(RuleOf(c)[1], df.data[c][1])
           /\ Fails(RuleOf(c)[1], df.data[c][2])
           /\ errors[1] \in FaultMsgs[c]
           /\ errors[2] \in PlainMsgs[c]
           /\ Len(errors) >= 3
           /\ errors[3] \in ValueMsgs[k] \cup {NotInDataFrame(k)}

(* C9: no short-circuit and a fixed order: the list is the strict-mode
   messages in the table's column order, then for each key of the schema in
   the schema's order either its "not found in DataFrame" message or its
   value messages in the order in which the values first appear in the
   column; nothing is dropped and nothing is interleaved. *)
\* a message source is <<phase, position of the column, row of first appearance>>
StrictSources ==
    {<<1, i, 0>> : i \in {n \in 1..Len(df.columns) : schema.strict /\ df.columns[n] \notin Keys}}
MissingSources ==
    {<<2, p, 0>> : p \in {n \in 1..Len(schema.schema.keys) : schema.schema.keys[n] \notin Cols}}
FirstAt(s, j) == \A i \in 1..(j - 1) : s[i] # s[j]
ValueSourcesOf(p) ==
    LET c == schema.schema.keys[p]
    IN  IF ~HasPredicate(c) THEN {}
        ELSE {<<2, p, j>> : j \in {n \in 1..Len(df.data[c]) :
                                      /\ FirstAt(df.data[c], n)
                                      /\ \/ Raises(RuleOf(c)[1], df.data[c][n])
                                         \/ Fails(RuleOf(c)[1], df.data[c][n])}}
Sources ==
    StrictSources \cup MissingSources
        \cup UNION {ValueSourcesOf(p) : p \in 1..Len(schema.schema.keys)}

Before(s, t) ==
    \/ s[1] < t[1]
    \/ s[1] = t[1] /\ s[2] < t[2]
    \/ s[1] = t[1] /\ s[2] = t[2] /\ s[3] < t[3]

MessageOf(s) ==
    IF s[1] = 1 THEN NotInSchema(df.columns[s[2]])
    ELSE LET c == schema.schema.keys[s[2]]
         IN  IF s[3] = 0 THEN NotInDataFrame(c)
             ELSE LET x == df.data[c][s[3]]
                      t == RuleOf(c)[1]
                  IN  IF Raises(t, x) THEN InvalidValueErr(c, x, Fault(t, x))
                      ELSE InvalidValue(c, x)

C9_OrderedAndComplete ==
    Called =>
        /\ Len(errors) = Cardinality(Sources)
        /\ \A s \in Sources :
              errors[1 + Cardinality({t \in Sources : Before(t, s)})] = MessageOf(s)

\* a strict-mode message, then the messages of two keys, the first with two
\* offending values
C9_Witness ==
    /\ Called
    /\ Len(errors) >= 4
    /\ \E s \in Sources : s[1] = 1
    /\ \E s, t \in Sources : s[1] = 2 /\ t[1] = 2 /\ s[2] = t[2] /\ s[3] # t[3]
    /\ \E s \in Sources : s[1] = 2 /\ s[2] = 2

-----------------------------------------------------------------------------
(* Vocabulary of the properties of the decorator *)

FuncAt == {i \in 1..Len(log) : log[i].ev = "func"}
Invoked == FuncAt # {}
Passes(S, d) == SchemaValidate(S, d).result = "True"

\* every positional argument that has a Schema passes it
AllInputsPass ==
    args # None =>
        \A i \in 1..Len(args[1]) : args[1][i] # None => Passes(args[1][i][1], args_[i])

(* C7: the wrapped function runs only if every argument that has a Schema
   passes it; when one at any index fails, the function is not run and the
   call returns no value. *)
C7_RunsOnlyIfAllInputsPass ==
    (pc \in {"invoked", "returned"} /\ ~AllInputsPass) =>
        /\ ~Invoked
        /\ pc = "returned" => retval = None

(* C8: when the input validation of the call has passed, the wrapped function
   is invoked exactly once, after every validation of an argument and before
   the validation of its result; the result is returned exactly when there is
   no returns Schema or the result passes it, and None is returned otherwise. *)
C8_OutputValidation ==
    /\ Cardinality(FuncAt) <= 1
    /\ valid_inputs # "True" => ~Invoked
    /\ (pc \in {"invoked", "returned"} /\ valid_inputs = "True") => Cardinality(FuncAt) = 1
    /\ \A i \in FuncAt :
          \A j \in 1..Len(log) :
              /\ log[j].ev = "validate_i" => j < i
              /\ log[j].ev = "validate_o" => j > i
    /\ (pc = "returned" /\ Invoked) =>
          /\ Count(log, Event("validate_o", 0)) = (IF returns = None THEN 0 ELSE 1)
          /\ IF returns = None \/ Passes(returns[1], output[1])
                 THEN retval = output
                 ELSE retval = None

\* an argument was validated, the function ran, and its result was withheld
C8_Witness ==
    /\ pc = "returned"
    /\ Invoked
    /\ returns # None
    /\ ~Passes(returns[1], output[1])
    /\ retval = None
    /\ \E j \in 1..Len(log) : log[j].ev = "validate_i"

(* C10: execution is never withheld without a validation failure: when every
   argument that has a Schema passes it - also when args is a non-empty tuple
   holding no Schema at all - the wrapped function is invoked and, unless a
   returns Schema fails, its result is returned. *)
C10_NeverWithheldWithoutFailure ==
    (pc = "returned" /\ AllInputsPass) =>
        /\ Invoked
        /\ (returns = None \/ Passes(returns[1], output[1])) => retval = output

====
